---- MODULE Spec2Model ----
(***************************************************************************)
(* A model of the two command-line utilities                               *)
(*   osgeo_utils/gdal_proximity.py   (main, gdal_proximity, Usage)         *)
(*   osgeo_utils/samples/vec_tr.py   (main, WalkAndTransform,              *)
(*                                    TransformPoint, Usage)               *)
(* Python's None is the empty tuple <<>>, a value v that may be None is    *)
(* the one-element tuple <<v>>.  Python indices stay 0-based: ArgAt(k) is  *)
(* argv[k].                                                                *)
(***************************************************************************)
EXTENDS Integers, Sequences, FiniteSets, TLC

VARIABLES
    argv,           \* gdal_proximity: the argument vector given to main
    mainf,          \* gdal_proximity: the locals of main (record, source names)
    gpf,            \* gdal_proximity: the locals of gdal_proximity()
    pc,             \* gdal_proximity: position in main / gdal_proximity
    ret,            \* gdal_proximity: the value main returned (<<>> is None)
    exc,            \* gdal_proximity: the exception that left main, "" if none
    open_handles,   \* gdal_proximity: dataset handles acquired and not released
    acquired,       \* gdal_proximity: every dataset Open/Create that succeeded
    compute_calls,  \* gdal_proximity: the calls made to gdal.ComputeProximity
    walk_in,        \* WalkAndTransform alone: the geometry given
    walk_out,       \* WalkAndTransform alone: <<>> or <<the geometry returned>>
    v_argv,         \* vec_tr: the argument vector given to main
    v_pc,           \* vec_tr: position in main
    v_loc,          \* vec_tr: infile, outfile, layer_name
    v_ret,          \* vec_tr: the value main returned
    v_exc,          \* vec_tr: the exception that left main, "" if none
    in_layer,       \* vec_tr: the input layer, a sequence of features
    in_orig,        \* vec_tr: the input layer as it was when main started
    in_cursor,      \* vec_tr: features already returned by GetNextFeature
    shp_layer,      \* vec_tr: the features created in the output layer
    v_ds            \* vec_tr: the data sources opened or created

proxVars == <<argv, mainf, gpf, pc, ret, exc, open_handles, acquired, compute_calls>>
walkVars == <<walk_in, walk_out>>
vecVars  == <<v_argv, v_pc, v_loc, v_ret, v_exc, in_layer, in_orig, in_cursor,
              shp_layer, v_ds>>
vars == <<proxVars, walkVars, vecVars>>

None == <<>>
Some(v) == <<v>>

SeqsUpTo(S, n) == UNION {[1..k -> S] : k \in 0..n}

(***************************************************************************)
(* Bounds of the model.                                                    *)
(***************************************************************************)
\* the most arguments after the program name
MaxArgs == 6
\* the most bands a raster dataset of the model has
MaxBands == 2

\* the shapes (RasterXSize, RasterYSize) a raster dataset of the model has
Sizes == {<<1, 2>>, <<2, 1>>}

\* Each command line is written over one of these small alphabets.
Alphabets ==
    << {"-values", "-nodata", "a", "b"},
       {"-maxdist", "-distunits", "a"},
       {"-use_input_nodata", "-fixed-buf-val", "a"},
       {"-of", "-f", "a"},
       {"-co", "-ot", "a"},
       {"-srcband", "2", "a"},
       {"-dstband", "2", "a"},
       {"-q", "-quiet", "a"},
       {"--help", "-x", "a"},
       {"", "--version", "a"},
       {"-values", "-of", "b"},
       {"-nodata", "-dstband", "2"},
       {"-of", "-srcband", "2", "a"} >>

ProgName == "gdal_proximity.py"

ArgVectors ==
    UNION { { <<ProgName>> \o s : s \in SeqsUpTo(Alphabets[a], MaxArgs) }
            : a \in DOMAIN Alphabets }

(***************************************************************************)
(* gdal_proximity.py                                                       *)
(***************************************************************************)
LenArgv == Len(argv)
ArgAt(k) == argv[k + 1]

\* arg[0] == "-": the tokens of the model whose first character is "-"
Dashed == {"-values", "-nodata", "-maxdist", "-distunits", "-use_input_nodata",
           "-fixed-buf-val", "-of", "-f", "-co", "-ot", "-srcband", "-dstband",
           "-q", "-quiet", "--help", "-x", "--version"}

\* int(s): the tokens of the model that are integer literals
IntLiteral == [s \in {"1", "2", "3"} |-> CASE s = "1" -> 1 [] s = "2" -> 2 [] s = "3" -> 3]

\* sys.exit(main(sys.argv)): None exits 0, an integer exits with it, an
\* exception that leaves main exits 1.
ExitCode == IF pc = "raised" THEN 1 ELSE IF ret = None THEN 0 ELSE ret[1]

Terminated == pc \in {"returned", "raised"}

MainLocals0 ==
    [ driver_name |-> None, creation_options |-> <<>>, alg_options |-> <<>>,
      src_filename |-> None, src_band_n |-> 1, dst_filename |-> None,
      dst_band_n |-> 1, creation_type |-> "Float32", quiet |-> FALSE, i |-> 1 ]

GpLocals0 ==
    [ driver_name |-> None, src_ds |-> None, dst_ds |-> None,
      srcband |-> None, dstband |-> None ]

InitProximity ==
    /\ argv \in ArgVectors
    /\ mainf = MainLocals0
    /\ gpf = GpLocals0
    /\ pc = "start"
    /\ ret = None
    /\ exc = ""
    /\ open_handles = {}
    /\ acquired = <<>>
    /\ compute_calls = <<>>
    /\ walk_in = None /\ walk_out = None
    /\ v_argv = <<>> /\ v_pc = "idle" /\ v_loc = None /\ v_ret = None /\ v_exc = ""
    /\ in_layer = <<>> /\ in_orig = <<>> /\ in_cursor = 0 /\ shp_layer = <<>>
    /\ v_ds = {}

\* return v from main
Return(v) ==
    /\ pc' = "returned"
    /\ ret' = v
    /\ UNCHANGED exc

\* an exception leaves main; the frames keep their locals
Raise(e) ==
    /\ pc' = "raised"
    /\ exc' = e
    /\ UNCHANGED ret

\* Usage(isError)
Usage(isError) == IF isError THEN 2 ELSE 0

runVars == <<gpf, open_handles, acquired, compute_calls>>
nonProx == <<walkVars, vecVars>>

\* argv = gdal.GeneralCmdLineProcessor(argv); if argv is None: return 0
GeneralCmdLineProcessor ==
    /\ pc = "start"
    /\ IF \E k \in 2..LenArgv : argv[k] = "--version"
         THEN Return(Some(0))
         ELSE pc' = "parse" /\ UNCHANGED <<ret, exc>>
    /\ UNCHANGED <<nonProx, argv, mainf, runVars>>

InLoop == pc = "parse" /\ mainf.i < LenArgv
arg == ArgAt(mainf.i)
HasValue == mainf.i + 1 < LenArgv

\* i = i + 1; <use argv[i]>; ...; i = i + 1   where argv[i] does not exist
NoValue ==
    /\ mainf' = [mainf EXCEPT !.i = mainf.i + 1]
    /\ Raise("IndexError")

Continue == pc' = "parse" /\ UNCHANGED <<ret, exc>>

ParseHelp ==
    /\ InLoop /\ arg = "--help"
    /\ Return(Some(Usage(FALSE)))
    /\ UNCHANGED <<nonProx, argv, mainf, runVars>>

ParseOf ==
    /\ InLoop /\ arg \in {"-of", "-f"}
    /\ IF HasValue
         THEN /\ mainf' = [mainf EXCEPT !.driver_name = Some(ArgAt(mainf.i + 1)),
                                        !.i = mainf.i + 2]
              /\ Continue
         ELSE NoValue
    /\ UNCHANGED <<nonProx, argv, runVars>>

ParseCo ==
    /\ InLoop /\ arg = "-co"
    /\ IF HasValue
         THEN /\ mainf' = [mainf EXCEPT
                    !.creation_options = Append(@, ArgAt(mainf.i + 1)),
                    !.i = mainf.i + 2]
              /\ Continue
         ELSE NoValue
    /\ UNCHANGED <<nonProx, argv, runVars>>

ParseOt ==
    /\ InLoop /\ arg = "-ot"
    /\ IF HasValue
         THEN /\ mainf' = [mainf EXCEPT !.creation_type = ArgAt(mainf.i + 1),
                                        !.i = mainf.i + 2]
              /\ Continue
         ELSE NoValue
    /\ UNCHANGED <<nonProx, argv, runVars>>

ParseMaxdist ==
    /\ InLoop /\ arg = "-maxdist"
    /\ IF HasValue
         THEN /\ mainf' = [mainf EXCEPT
                    !.alg_options = Append(@, "MAXDIST=" \o ArgAt(mainf.i + 1)),
                    !.i = mainf.i + 2]
              /\ Continue
         ELSE NoValue
    /\ UNCHANGED <<nonProx, argv, runVars>>

ParseValues ==
    /\ InLoop /\ arg = "-values"
    /\ IF HasValue
         THEN /\ mainf' = [mainf EXCEPT
                    !.alg_options = Append(@, "VALUES=" \o ArgAt(mainf.i + 1)),
                    !.i = mainf.i + 2]
              /\ Continue
         ELSE NoValue
    /\ UNCHANGED <<nonProx, argv, runVars>>

ParseDistunits ==
    /\ InLoop /\ arg = "-distunits"
    /\ IF HasValue
         THEN /\ mainf' = [mainf EXCEPT
                    !.alg_options = Append(@, "DISTUNITS=" \o ArgAt(mainf.i + 1)),
                    !.i = mainf.i + 2]
              /\ Continue
         ELSE NoValue
    /\ UNCHANGED <<nonProx, argv, runVars>>

ParseNodata_WrongKey ==
    /\ InLoop /\ arg = "-nodata"
    /\ IF HasValue
         THEN /\ mainf' = [mainf EXCEPT
                    !.alg_options = Append(@, "MAXDIST=" \o ArgAt(mainf.i + 1)),
                    !.i = mainf.i + 2]
              /\ Continue
         ELSE NoValue
    /\ UNCHANGED <<nonProx, argv, runVars>>

ParseNodata ==
    /\ InLoop /\ arg = "-nodata"
    /\ IF HasValue
         THEN /\ mainf' = [mainf EXCEPT
                    !.alg_options = Append(@, "NODATA=" \o ArgAt(mainf.i + 1)),
                    !.i = mainf.i + 2]
              /\ Continue
         ELSE NoValue
    /\ UNCHANGED <<nonProx, argv, runVars>>

ParseUseInputNodata ==
    /\ InLoop /\ arg = "-use_input_nodata"
    /\ IF HasValue
         THEN /\ mainf' = [mainf EXCEPT
                    !.alg_options = Append(@, "USE_INPUT_NODATA=" \o ArgAt(mainf.i + 1)),
                    !.i = mainf.i + 2]
              /\ Continue
         ELSE NoValue
    /\ UNCHANGED <<nonProx, argv, runVars>>

ParseFixedBufVal ==
    /\ InLoop /\ arg = "-fixed-buf-val"
    /\ IF HasValue
         THEN /\ mainf' = [mainf EXCEPT
                    !.alg_options = Append(@, "FIXED_BUF_VAL=" \o ArgAt(mainf.i + 1)),
                    !.i = mainf.i + 2]
              /\ Continue
         ELSE NoValue
    /\ UNCHANGED <<nonProx, argv, runVars>>

ParseSrcband ==
    /\ InLoop /\ arg = "-srcband"
    /\ IF HasValue
         THEN IF ArgAt(mainf.i + 1) \in DOMAIN IntLiteral
                THEN /\ mainf' = [mainf EXCEPT
                           !.src_band_n = IntLiteral[ArgAt(mainf.i + 1)],
                           !.i = mainf.i + 2]
                     /\ Continue
                ELSE /\ mainf' = [mainf EXCEPT !.i = mainf.i + 1]
                     /\ Raise("ValueError")
         ELSE NoValue
    /\ UNCHANGED <<nonProx, argv, runVars>>

ParseDstband ==
    /\ InLoop /\ arg = "-dstband"
    /\ IF HasValue
         THEN IF ArgAt(mainf.i + 1) \in DOMAIN IntLiteral
                THEN /\ mainf' = [mainf EXCEPT
                           !.dst_band_n = IntLiteral[ArgAt(mainf.i + 1)],
                           !.i = mainf.i + 2]
                     /\ Continue
                ELSE /\ mainf' = [mainf EXCEPT !.i = mainf.i + 1]
                     /\ Raise("ValueError")
         ELSE NoValue
    /\ UNCHANGED <<nonProx, argv, runVars>>

ParseQuiet ==
    /\ InLoop /\ arg \in {"-q", "-quiet"}
    /\ mainf' = [mainf EXCEPT !.quiet = TRUE, !.i = mainf.i + 1]
    /\ Continue
    /\ UNCHANGED <<nonProx, argv, runVars>>

Flags == {"--help", "-of", "-f", "-co", "-ot", "-maxdist", "-values", "-distunits",
          "-nodata", "-use_input_nodata", "-fixed-buf-val", "-srcband", "-dstband",
          "-q", "-quiet"}

\* elif arg[0] == "-": the empty string has no character 0
ParseUnrecognized ==
    /\ InLoop /\ arg \notin Flags
    /\ \/ /\ arg = ""
          /\ Raise("IndexError")
       \/ /\ arg \in Dashed
          /\ Return(Some(Usage(TRUE)))
    /\ UNCHANGED <<nonProx, argv, mainf, runVars>>

ParsePositional ==
    /\ InLoop /\ arg \notin Flags /\ arg # "" /\ arg \notin Dashed
    /\ \/ /\ mainf.src_filename = None
          /\ mainf' = [mainf EXCEPT !.src_filename = Some(arg), !.i = mainf.i + 1]
          /\ Continue
       \/ /\ mainf.src_filename # None /\ mainf.dst_filename = None
          /\ mainf' = [mainf EXCEPT !.dst_filename = Some(arg), !.i = mainf.i + 1]
          /\ Continue
       \/ /\ mainf.src_filename # None /\ mainf.dst_filename # None
          /\ Return(Some(Usage(TRUE)))
          /\ UNCHANGED mainf
    /\ UNCHANGED <<nonProx, argv, runVars>>

CheckFilenames_OpenFirst ==
    /\ pc = "parse" /\ ~(mainf.i < LenArgv)
    /\ \/ /\ mainf.src_filename = None
          /\ Return(Some(Usage(TRUE)))
          /\ UNCHANGED runVars
       \/ /\ mainf.src_filename # None /\ mainf.dst_filename = None
          /\ open_handles' = open_handles \cup {"src"}
          /\ acquired' = Append(acquired, [how |-> "Open", name |-> mainf.src_filename[1]])
          /\ Return(Some(Usage(TRUE)))
          /\ UNCHANGED <<gpf, compute_calls>>
       \/ /\ mainf.src_filename # None /\ mainf.dst_filename # None
          /\ gpf' = [GpLocals0 EXCEPT !.driver_name = mainf.driver_name]
          /\ pc' = "open_src"
          /\ UNCHANGED <<ret, exc, open_handles, acquired, compute_calls>>
    /\ UNCHANGED <<nonProx, argv, mainf>>

\* after the loop: the two checks, then the call of gdal_proximity
CheckFilenames ==
    /\ pc = "parse" /\ ~(mainf.i < LenArgv)
    /\ \/ /\ mainf.src_filename = None
          /\ Return(Some(Usage(TRUE)))
          /\ UNCHANGED runVars
       \/ /\ mainf.src_filename # None /\ mainf.dst_filename = None
          /\ Return(Some(Usage(TRUE)))
          /\ UNCHANGED runVars
       \/ /\ mainf.src_filename # None /\ mainf.dst_filename # None
          /\ gpf' = [GpLocals0 EXCEPT !.driver_name = mainf.driver_name]
          /\ pc' = "open_src"
          /\ UNCHANGED <<ret, exc, open_handles, acquired, compute_calls>>
    /\ UNCHANGED <<nonProx, argv, mainf>>

(***************************************************************************)
(* gdal_proximity(): the datasets are the environment's; what an Open,     *)
(* IdentifyDriver, Create or ComputeProximity meets there is chosen when   *)
(* the call is made.                                                       *)
(***************************************************************************)
Dataset(role, name, sz, nb, drv) ==
    [role |-> role, name |-> name, xsize |-> sz[1], ysize |-> sz[2],
     bands |-> nb, driver |-> drv]

\* ds.GetRasterBand(n) of an existing band
Band(ds, n) == [ds |-> ds.role, n |-> n, xsize |-> ds.xsize, ysize |-> ds.ysize]

\* what gdal.IdentifyDriver returns for a file it recognises: a Driver object
DriverObject == "<osgeo.gdal.Driver>"

\* GetOutputDriverFor(dst_filename): the guess from the file name's extension;
\* the names of the model have none, which the utility answers with GTiff.
GetOutputDriverFor(filename) == "GTiff"

\* srcband = src_ds.GetRasterBand(src_band_n)
SourceBand(ds) == Band(ds, mainf.src_band_n)

DestBandOfExisting_First(ds) == Band(ds, 1)

\* dstband = dst_ds.GetRasterBand(dst_band_n), of a destination opened for update
DestBandOfExisting(ds) == Band(ds, mainf.dst_band_n)

\* dstband = dst_ds.GetRasterBand(1), of a destination just created
DestBandOfCreated(ds) == Band(ds, 1)

\* src_ds = gdal.Open(src_filename) ... srcband = src_ds.GetRasterBand(src_band_n)
OpenSource ==
    /\ pc = "open_src"
    /\ \/ /\ Return(Some(1))                  \* Open returned None
          /\ UNCHANGED runVars
       \/ /\ Raise("RuntimeError")            \* Open raised
          /\ UNCHANGED runVars
       \/ \E sz \in Sizes, nb \in 1..MaxBands :
            LET ds == Dataset("src", mainf.src_filename[1], sz, nb, "existing") IN
            /\ open_handles' = open_handles \cup {"src"}
            /\ acquired' = Append(acquired, [how |-> "Open", name |-> ds.name])
            /\ UNCHANGED compute_calls
            /\ \/ /\ mainf.src_band_n \in 1..nb
                  /\ gpf' = [gpf EXCEPT !.src_ds = Some(ds),
                                        !.srcband = Some(SourceBand(ds))]
                  /\ pc' = "open_dst" /\ UNCHANGED <<ret, exc>>
               \/ /\ mainf.src_band_n \notin 1..nb   \* GetRasterBand returned None
                  /\ gpf' = [gpf EXCEPT !.src_ds = Some(ds), !.srcband = None]
                  /\ pc' = "open_dst" /\ UNCHANGED <<ret, exc>>
               \/ /\ mainf.src_band_n \notin 1..nb   \* GetRasterBand raised
                  /\ gpf' = [gpf EXCEPT !.src_ds = Some(ds)]
                  /\ Raise("RuntimeError")
    /\ UNCHANGED <<nonProx, argv, mainf>>

\* the try block: driver_name = gdal.IdentifyDriver(dst_filename) ...
OpenDest ==
    /\ pc = "open_dst"
    /\ \/ /\ gpf' = [gpf EXCEPT !.driver_name = None, !.dst_ds = None]
          /\ pc' = "create_dst"               \* IdentifyDriver returned None
          /\ UNCHANGED <<ret, exc, open_handles, acquired>>
       \/ /\ gpf' = [gpf EXCEPT !.dst_ds = None]
          /\ pc' = "create_dst"               \* IdentifyDriver raised
          /\ UNCHANGED <<ret, exc, open_handles, acquired>>
       \/ /\ gpf' = [gpf EXCEPT !.driver_name = Some(DriverObject), !.dst_ds = None]
          /\ pc' = "create_dst"               \* recognised, Open failed
          /\ UNCHANGED <<ret, exc, open_handles, acquired>>
       \/ \E sz \in Sizes, nb \in 1..MaxBands :
            LET ds == Dataset("dst", mainf.dst_filename[1], sz, nb, "existing") IN
            /\ acquired' = Append(acquired, [how |-> "OpenUpdate", name |-> ds.name])
            /\ UNCHANGED <<ret, exc>>
            /\ \/ /\ mainf.dst_band_n \in 1..nb
                  /\ gpf' = [gpf EXCEPT !.driver_name = Some(DriverObject),
                                        !.dst_ds = Some(ds),
                                        !.dstband = Some(DestBandOfExisting(ds))]
                  /\ open_handles' = open_handles \cup {"dst"}
                  /\ pc' = "compute"
               \/ /\ mainf.dst_band_n \notin 1..nb   \* GetRasterBand returned None
                  /\ gpf' = [gpf EXCEPT !.driver_name = Some(DriverObject),
                                        !.dst_ds = Some(ds), !.dstband = None]
                  /\ open_handles' = open_handles \cup {"dst"}
                  /\ pc' = "compute"
               \/ /\ mainf.dst_band_n \notin 1..nb   \* GetRasterBand raised: except
                  /\ gpf' = [gpf EXCEPT !.driver_name = Some(DriverObject),
                                        !.dst_ds = None]
                  /\ UNCHANGED open_handles
                  /\ pc' = "create_dst"
    /\ UNCHANGED <<nonProx, argv, mainf, compute_calls>>

\* if dst_ds is None: ... drv.Create(...) ... dstband = dst_ds.GetRasterBand(1)
CreateDest ==
    /\ pc = "create_dst"
    /\ LET name == IF gpf.driver_name = None
                     THEN GetOutputDriverFor(mainf.dst_filename[1])
                     ELSE gpf.driver_name[1]
           src == gpf.src_ds[1]
           ds == Dataset("dst", mainf.dst_filename[1], <<src.xsize, src.ysize>>, 1, name)
       IN \/ /\ name = DriverObject           \* GetDriverByName(<Driver>)
             /\ gpf' = [gpf EXCEPT !.driver_name = Some(name)]
             /\ Raise("TypeError")
             /\ UNCHANGED <<open_handles, acquired>>
          \/ /\ name # DriverObject           \* GetDriverByName returned None
             /\ gpf' = [gpf EXCEPT !.driver_name = Some(name)]
             /\ Raise("AttributeError")
             /\ UNCHANGED <<open_handles, acquired>>
          \/ /\ name # DriverObject           \* Create failed
             /\ gpf' = [gpf EXCEPT !.driver_name = Some(name)]
             /\ Raise("RuntimeError")
             /\ UNCHANGED <<open_handles, acquired>>
          \/ /\ name # DriverObject
             /\ gpf' = [gpf EXCEPT !.driver_name = Some(name), !.dst_ds = Some(ds),
                                   !.dstband = Some(DestBandOfCreated(ds))]
             /\ open_handles' = open_handles \cup {"dst"}
             /\ acquired' = Append(acquired,
                   [how |-> "Create", name |-> ds.name, driver |-> name,
                    xsize |-> ds.xsize, ysize |-> ds.ysize, bands |-> 1,
                    type |-> mainf.creation_type, options |-> mainf.creation_options])
             /\ pc' = "compute" /\ UNCHANGED <<ret, exc>>
    /\ UNCHANGED <<nonProx, argv, mainf, compute_calls>>

\* gdal.ComputeProximity(srcband, dstband, alg_options, callback=prog_func)
\* and the release of the four references
ComputeProximity ==
    /\ pc = "compute"
    /\ \/ /\ (gpf.srcband = None \/ gpf.dstband = None)   \* a NULL band is refused
          /\ Raise("ValueError")
          /\ UNCHANGED runVars
       \/ /\ gpf.srcband # None /\ gpf.dstband # None
          /\ LET call == [srcband |-> gpf.srcband[1], dstband |-> gpf.dstband[1],
                          options |-> mainf.alg_options,
                          callback |-> IF mainf.quiet THEN "None" ELSE "TermProgress_nocb"]
                 same == /\ call.srcband.xsize = call.dstband.xsize
                         /\ call.srcband.ysize = call.dstband.ysize
             IN /\ compute_calls' = Append(compute_calls, call)
                /\ \/ /\ Raise("RuntimeError")             \* the algorithm failed
                      /\ UNCHANGED <<gpf, open_handles>>
                   \/ /\ same
                      /\ gpf' = [gpf EXCEPT !.srcband = None, !.dstband = None,
                                            !.src_ds = None, !.dst_ds = None]
                      /\ open_handles' = {}
                      /\ Return(None)
          /\ UNCHANGED acquired
    /\ UNCHANGED <<nonProx, argv, mainf>>

NextProximity ==
    \/ GeneralCmdLineProcessor
    \/ ParseHelp \/ ParseOf \/ ParseCo \/ ParseOt
    \/ ParseMaxdist \/ ParseValues \/ ParseDistunits \/ ParseNodata
    \/ ParseUseInputNodata \/ ParseFixedBufVal
    \/ ParseSrcband \/ ParseDstband \/ ParseQuiet
    \/ ParseUnrecognized \/ ParsePositional
    \/ CheckFilenames
    \/ OpenSource \/ OpenDest \/ CreateDest \/ ComputeProximity

SpecProximity == InitProximity /\ [][NextProximity]_vars

(***************************************************************************)
(* vec_tr.py.  A geometry is a record: subs, its sub-geometries            *)
(* (GetGeometryCount, GetGeometryRef), and pts, its own points             *)
(* (GetPointCount, GetX/GetY/GetZ), each point <<x, y, z>>.                *)
(***************************************************************************)
\* the size (nodes plus points) of the largest geometry WalkAndTransform is given
MaxGeomSize == 5
\* the most features of an input layer
MaxFeatures == 2
\* the most arguments after the program name given to vec_tr's main
MaxVecArgs == 4

Points == {<<0, 0, 0>>, <<7, -3, 2>>}

Leaf(p) == [subs |-> <<>>, pts |-> p]
Multi(f) == [subs |-> f, pts |-> <<>>]

RECURSIVE GeomsOfSize(_), ForestsOfSize(_)
\* the geometries with n nodes and points in all
GeomsOfSize(n) ==
    IF n < 1 THEN {}
    ELSE {Leaf(p) : p \in [1..(n - 1) -> Points]}
         \cup {Multi(f) : f \in ForestsOfSize(n - 1)}
\* the non-empty sequences of geometries with n nodes and points in all
ForestsOfSize(n) ==
    IF n < 1 THEN {}
    ELSE {<<g>> : g \in GeomsOfSize(n)}
         \cup UNION { {<<g>> \o f : g \in GeomsOfSize(j), f \in ForestsOfSize(n - j)}
                      : j \in 1..(n - 1) }

GeomsUpTo(n) == UNION {GeomsOfSize(k) : k \in 1..n}

TransformPoint_TwiceShifted(xyz) == <<xyz[1] + 2000, xyz[2], xyz[3]>>

TransformPoint(xyz) ==
    LET x == xyz[1]
        y == xyz[2]
        z == xyz[3]
    IN <<x + 1000, y, z>>

RECURSIVE WalkAndTransform(_)
\* geom is changed in place and returned: the value after the walk
WalkAndTransform(geom) ==
    IF Len(geom.subs) > 0
      THEN [geom EXCEPT !.subs = [k \in 1..Len(geom.subs) |->
                                      WalkAndTransform(geom.subs[k])]]
      ELSE [geom EXCEPT !.pts = [k \in 1..Len(geom.pts) |->
                                      TransformPoint(geom.pts[k])]]

\* WalkAndTransform on its own, for every geometry up to MaxGeomSize
InitWalk ==
    /\ walk_in \in {Some(g) : g \in GeomsUpTo(MaxGeomSize)}
    /\ walk_out = None
    /\ argv = <<>> /\ mainf = MainLocals0 /\ gpf = GpLocals0 /\ pc = "idle"
    /\ ret = None /\ exc = "" /\ open_handles = {} /\ acquired = <<>>
    /\ compute_calls = <<>>
    /\ v_argv = <<>> /\ v_pc = "idle" /\ v_loc = None /\ v_ret = None /\ v_exc = ""
    /\ in_layer = <<>> /\ in_orig = <<>> /\ in_cursor = 0 /\ shp_layer = <<>>
    /\ v_ds = {}

CallWalkAndTransform ==
    /\ walk_in # None /\ walk_out = None
    /\ walk_out' = Some(WalkAndTransform(walk_in[1]))
    /\ UNCHANGED <<walk_in, proxVars, vecVars>>

NextWalk == CallWalkAndTransform

SpecWalk == InitWalk /\ [][NextWalk]_vars

(***************************************************************************)
(* vec_tr.py main.  The input data source and its layer exist; a feature   *)
(* holds a geometry or none (GetGeometryRef() is then None).               *)
(***************************************************************************)
SampleGeoms ==
    { Leaf(<<<<0, 0, 0>>, <<7, -3, 2>>>>),
      Multi(<<Leaf(<<<<7, -3, 2>>>>), Leaf(<<<<0, 0, 0>>>>)>>),
      Multi(<<Multi(<<Leaf(<<<<1, 1, 1>>>>)>>)>>) }

Features == {[geom |-> None]} \cup {[geom |-> Some(g)] : g \in SampleGeoms}

VecProgName == "vec_tr.py"

InitVecTr ==
    /\ v_argv \in {<<VecProgName>> \o s : s \in SeqsUpTo({"a", "b"}, MaxVecArgs)}
    /\ in_layer \in SeqsUpTo(Features, MaxFeatures)
    /\ in_orig = in_layer
    /\ v_pc = "start"
    /\ v_loc = [infile |-> None, outfile |-> None, layer_name |-> None]
    /\ v_ret = None /\ v_exc = ""
    /\ in_cursor = 0 /\ shp_layer = <<>> /\ v_ds = {}
    /\ walk_in = None /\ walk_out = None
    /\ argv = <<>> /\ mainf = MainLocals0 /\ gpf = GpLocals0 /\ pc = "idle"
    /\ ret = None /\ exc = "" /\ open_handles = {} /\ acquired = <<>>
    /\ compute_calls = <<>>

\* Usage() of vec_tr.py
VecUsage == 2

RECURSIVE VecAssign(_, _)
\* for arg in argv[1:]: the first three fill infile, outfile, layer_name;
\* a fourth returns Usage(): the result is the locals, or None for that return
VecAssign(loc, rest) ==
    IF rest = <<>> THEN Some(loc)
    ELSE IF loc.infile = None
           THEN VecAssign([loc EXCEPT !.infile = Some(Head(rest))], Tail(rest))
    ELSE IF loc.outfile = None
           THEN VecAssign([loc EXCEPT !.outfile = Some(Head(rest))], Tail(rest))
    ELSE IF loc.layer_name = None
           THEN VecAssign([loc EXCEPT !.layer_name = Some(Head(rest))], Tail(rest))
    ELSE None

\* the argument loop and the check of outfile
VecParseArgs ==
    /\ v_pc = "start"
    /\ LET r == VecAssign(v_loc, Tail(v_argv)) IN
         IF r = None
           THEN /\ v_pc' = "returned" /\ v_ret' = Some(VecUsage) /\ UNCHANGED v_loc
           ELSE /\ v_loc' = r[1]
                /\ IF r[1].outfile = None
                     THEN v_pc' = "returned" /\ v_ret' = Some(VecUsage)
                     ELSE v_pc' = "open" /\ UNCHANGED v_ret
    /\ UNCHANGED <<v_argv, v_exc, in_layer, in_orig, in_cursor, shp_layer, v_ds,
                   proxVars, walkVars>>

\* ogr.Open(infile), the layer, the output data source, its layer and fields
VecOpenAndCreate ==
    /\ v_pc = "open"
    /\ v_ds' = {"in_ds", "shp_ds"}
    /\ v_pc' = "loop"
    /\ UNCHANGED <<v_argv, v_loc, v_ret, v_exc, in_layer, in_orig, in_cursor,
                   shp_layer, proxVars, walkVars>>

\* geom.Clone(): a new geometry equal to geom
Clone(geom) == geom

\* one turn of "while in_feat is not None"
VecProcessFeature ==
    /\ v_pc = "loop" /\ in_cursor < Len(in_layer)
    /\ LET in_feat == in_layer[in_cursor + 1] IN
         \/ /\ in_feat.geom = None              \* None.Clone()
            /\ v_pc' = "raised" /\ v_exc' = "AttributeError"
            /\ UNCHANGED <<shp_layer, in_cursor>>
         \/ /\ in_feat.geom # None
            /\ LET geom == WalkAndTransform(Clone(in_feat.geom[1])) IN
                 shp_layer' = Append(shp_layer, [geom |-> Some(geom)])
            /\ in_cursor' = in_cursor + 1
            /\ UNCHANGED <<v_pc, v_exc>>
    /\ UNCHANGED <<v_argv, v_loc, v_ret, in_layer, in_orig, v_ds, proxVars, walkVars>>

\* GetNextFeature() returned None: Destroy both data sources, return 0
VecFinish ==
    /\ v_pc = "loop" /\ in_cursor = Len(in_layer)
    /\ v_ds' = {}
    /\ v_pc' = "returned" /\ v_ret' = Some(0)
    /\ UNCHANGED <<v_argv, v_loc, v_exc, in_layer, in_orig, in_cursor, shp_layer,
                   proxVars, walkVars>>

NextVecTr == VecParseArgs \/ VecOpenAndCreate \/ VecProcessFeature \/ VecFinish

SpecVecTr == InitVecTr /\ [][NextVecTr]_vars

(***************************************************************************)
(* The claims.                                                             *)
(***************************************************************************)
RunSucceeded == pc = "returned" /\ ret = None /\ Len(compute_calls) = 1
InfoOnly ==
    /\ pc = "returned" /\ ret = Some(0) /\ acquired = <<>>
    /\ \E k \in 2..LenArgv : argv[k] \in {"--help", "--version"}
SourceNotOpened ==
    /\ acquired = <<>>
    /\ \/ pc = "returned" /\ ret = Some(1)
       \/ pc = "raised" /\ exc = "RuntimeError"
UsageReported == pc = "returned" /\ ret = Some(2)

\* C1: when main has ended, the exit code is 0 and the run succeeded (or only
\* --help/--version was asked), or it is 1 and the source could not be opened,
\* or it is 2 and main reported a usage error; nothing else happens.
C1_ExitCodes ==
    Terminated =>
        \/ ExitCode = 0 /\ (RunSucceeded \/ InfoOnly)
        \/ ExitCode = 1 /\ SourceNotOpened
        \/ ExitCode = 2 /\ UsageReported

Created(k) == acquired[k].how = "Create"

\* C2: a destination that is created is created with the driver requested by
\* -of/-f when one was requested, and with the guess from the file name only
\* when none was requested.
C2_RequestedDriverUsed ==
    \A k \in DOMAIN acquired :
        Created(k) =>
            IF mainf.driver_name # None
              THEN acquired[k].driver = mainf.driver_name[1]
              ELSE acquired[k].driver = GetOutputDriverFor(mainf.dst_filename[1])

\* C3: in every call of ComputeProximity the destination band has the width
\* and the height of the source band.
C3_SameDimensions ==
    \A k \in DOMAIN compute_calls :
        /\ compute_calls[k].dstband.xsize = compute_calls[k].srcband.xsize
        /\ compute_calls[k].dstband.ysize = compute_calls[k].srcband.ysize

AlgKey ==
    [f \in {"-values", "-distunits", "-maxdist", "-nodata", "-use_input_nodata",
            "-fixed-buf-val"} |->
        CASE f = "-values" -> "VALUES"
          [] f = "-distunits" -> "DISTUNITS"
          [] f = "-maxdist" -> "MAXDIST"
          [] f = "-nodata" -> "NODATA"
          [] f = "-use_input_nodata" -> "USE_INPUT_NODATA"
          [] f = "-fixed-buf-val" -> "FIXED_BUF_VAL"]
OtherValueFlags == {"-of", "-f", "-co", "-ot", "-srcband", "-dstband"}

RECURSIVE ExpectedAlgOptions(_, _)
\* the entries the claim asks for, from the k-th element of an accepted
\* argument vector on: one KEY=<value> for each algorithm flag, in order
ExpectedAlgOptions(av, k) ==
    IF k > Len(av) THEN <<>>
    ELSE IF av[k] \in DOMAIN AlgKey
           THEN <<AlgKey[av[k]] \o "=" \o av[k + 1]>> \o ExpectedAlgOptions(av, k + 2)
    ELSE IF av[k] \in OtherValueFlags THEN ExpectedAlgOptions(av, k + 2)
    ELSE ExpectedAlgOptions(av, k + 1)

\* C4: the option list given to ComputeProximity holds exactly one entry
\* KEY=<value> for each occurrence of an algorithm flag, in command-line order
\* with the value unmodified, and nothing else.
C4_AlgOptionsPassed ==
    \A k \in DOMAIN compute_calls :
        compute_calls[k].options = ExpectedAlgOptions(argv, 2)

C4_Witness ==
    /\ compute_calls # <<>>
    /\ compute_calls[1].options = <<"VALUES=a", "NODATA=a">>

DestCreated == \E k \in DOMAIN acquired : Created(k)

\* C5 as stated: the output band is band dst_band_n of the destination, opened
\* or created, and the input band is band src_band_n of the source.
C5_DstBandIsRequested ==
    \A k \in DOMAIN compute_calls :
        /\ compute_calls[k].srcband.ds = "src"
        /\ compute_calls[k].srcband.n = mainf.src_band_n
        /\ compute_calls[k].dstband.ds = "dst"
        /\ compute_calls[k].dstband.n = mainf.dst_band_n

\* C5 amended: the input band is band src_band_n of the source; the output band
\* is band dst_band_n of a destination opened as an existing file, and band 1
\* of a destination newly created.
C5_BandsPassed ==
    \A k \in DOMAIN compute_calls :
        /\ compute_calls[k].srcband.ds = "src"
        /\ compute_calls[k].srcband.n = mainf.src_band_n
        /\ compute_calls[k].dstband.ds = "dst"
        /\ compute_calls[k].dstband.n = IF DestCreated THEN 1 ELSE mainf.dst_band_n

C5_Witness ==
    /\ compute_calls # <<>>
    /\ DestCreated
    /\ mainf.dst_band_n = 2
    /\ compute_calls[1].dstband.n = 1

\* C7: when gdal_proximity has returned or an exception has left it, no dataset
\* handle it acquired is still held.
C7_HandlesReleased == Terminated => open_handles = {}

\* C8: when main returns the usage error code 2, no dataset has been opened or
\* created and ComputeProximity has not been called.
C8_UsageBeforeWork ==
    UsageReported => acquired = <<>> /\ open_handles = {} /\ compute_calls = <<>>

C8_Witness == UsageReported /\ mainf.src_filename # None /\ mainf.dst_filename = None

\* C9: the parsing loop never reads argv at an index at or beyond len(argv): no
\* IndexError comes from argv, and a value-taking flag that is the last
\* argument ends in the usage error return 2.
C9_NoOutOfRangeRead ==
    /\ exc = "IndexError" => mainf.i < LenArgv
    /\ (Terminated /\ pc = "raised" /\ mainf.i >= LenArgv
          /\ argv[LenArgv] \in DOMAIN AlgKey \cup OtherValueFlags) => ret = Some(2)

RECURSIVE Shifted(_, _)
\* h has the shape of g, and every vertex of h is the vertex of g at the same
\* place with x increased by 1000 and y and z as they were
Shifted(g, h) ==
    /\ Len(h.subs) = Len(g.subs)
    /\ Len(h.pts) = Len(g.pts)
    /\ \A k \in 1..Len(g.pts) :
          /\ h.pts[k][1] = g.pts[k][1] + 1000
          /\ h.pts[k][2] = g.pts[k][2]
          /\ h.pts[k][3] = g.pts[k][3]
    /\ \A k \in 1..Len(g.subs) : Shifted(g.subs[k], h.subs[k])

\* C6: after WalkAndTransform the tree has the shape it had and every vertex of
\* every leaf has x increased by exactly 1000 with y and z unchanged.
C6_WalkShiftsEveryVertex ==
    walk_out # None => Shifted(walk_in[1], walk_out[1])

C6_Witness ==
    /\ walk_out # None
    /\ Len(walk_in[1].subs) = 2
    /\ Len(walk_in[1].subs[1].pts) = 1
    /\ Len(walk_in[1].subs[2].pts) = 1
    /\ walk_out[1].subs[2].pts[1][1] = 1007

NPositional == Len(v_argv) - 1

\* C10: vec_tr's main, given 2 or 3 positional arguments, returns 0 having
\* created one output feature per input feature, in order, each with the walked
\* clone of its geometry, the input layer as it was; given fewer than 2 or more
\* than 3 it returns 2 with no data source opened or created.
C10_VecTrResult ==
    v_pc \in {"returned", "raised"} =>
        IF NPositional \in {2, 3}
          THEN /\ v_pc = "returned" /\ v_ret = Some(0)
               /\ Len(shp_layer) = Len(in_orig)
               /\ \A k \in 1..Len(in_orig) :
                     /\ in_orig[k].geom # None
                     /\ Shifted(in_orig[k].geom[1], shp_layer[k].geom[1])
               /\ in_layer = in_orig
          ELSE v_pc = "returned" /\ v_ret = Some(2) /\ v_ds = {}

\* The rest of C10, for the layers whose features all hold a geometry.
VecTrResultWithGeometries ==
    (/\ v_pc \in {"returned", "raised"}
     /\ \A k \in 1..Len(in_orig) : in_orig[k].geom # None) => C10_VecTrResult

====
